---- MODULE Spec2Model ----
(***************************************************************************)
(* Room lifecycle and session state machine of the quiz WebSocket server   *)
(* (src/index.js).  One step of the model is one event of the Node event   *)
(* loop run to completion: an inbound message, a timer tick, a connection  *)
(* opening, or a connection closing/erroring.                              *)
(*                                                                         *)
(* A handler is written as an operator over a record S that holds the      *)
(* whole server state (rooms, conns, intervals) together with the effects  *)
(* of the event so far: out, the payloads handed to ws.send in order, and  *)
(* cleared, the interval handles passed to clearInterval.  The server      *)
(* keeps neither, so they are results of a handler and not variables: a    *)
(* property of what a request sends is stated of the handler's result in   *)
(* the state the request arrives in.                                       *)
(***************************************************************************)
EXTENDS Integers, Sequences, FiniteSets, TLC

\* ---------------------------------------------------------------- bounds
MaxTimer == 2
MaxScore == 1
MaxHalves == 10

\* The universes requests are drawn from: sockets, the 4-digit codes the
\* generator may return, and caller-supplied identities.
Conns == {1, 2}
Codes == {"1000", "1001"}
Emails == {"a@q", "b@q"}

\* The smaller universes of the two specifications.
OneCode == {"1000"}
OneEmail == {"a@q"}

\* A falsy string field: null on a connection tag, undefined/absent in a body.
Null == "null"

\* body.timerSeconds: a JSON number, counted in halves so that Math.floor acts,
\* or any value whose typeof is not "number".
Seconds(h) == [typeof |-> "number", halves |-> h]
NoSeconds == [typeof |-> "undefined", halves |-> 0]
TimerInputs == {Seconds(2 * n) : n \in 0..MaxTimer}

\* Every kind of timerSeconds: omitted, a string, and numbers that are negative,
\* zero, fractional or whole, from -MaxHalves/2 to MaxHalves/2.
TextSeconds == [typeof |-> "string", halves |-> MaxHalves]
DurationInputs ==
  {NoSeconds, TextSeconds} \cup {Seconds(h) : h \in (0 - MaxHalves)..MaxHalves}

\* body.score
Score(n) == [typeof |-> "number", value |-> n]
NoScore == [typeof |-> "undefined", value |-> 0]
ScoreInputs == {NoScore} \cup {Score(n) : n \in 0..MaxScore}

\* ----------------------------------------------------------------- state
VARIABLES
  rooms,      \* const rooms = {}: roomCode -> room, defined on the live codes
  conns,      \* per connection: readyState OPEN?, ws.room, ws.userEmail
  intervals,  \* the intervals scheduled by setInterval and not yet cleared
  crashed     \* an exception escaped a handler: the process is gone

vars == <<rooms, conns, intervals, crashed>>

NoTimer == [timeRemaining |-> 0, interval |-> 0]

NewConn == [open |-> TRUE, room |-> Null, userEmail |-> Null]

Cur ==
  [rooms |-> rooms, conns |-> conns, intervals |-> intervals,
   out |-> <<>>, cleared |-> {}, crashed |-> crashed]

NoRooms == [c \in {} |-> 0]
NoConns == [w \in Conns |-> [open |-> FALSE, room |-> Null, userEmail |-> Null]]

\* An uncaught exception ends the process: its memory and its sockets go with it.
Crash(S) ==
  [S EXCEPT !.rooms = NoRooms, !.conns = NoConns, !.intervals = {}, !.crashed = TRUE]

Apply(S) ==
  /\ rooms' = S.rooms
  /\ conns' = S.conns
  /\ intervals' = S.intervals
  /\ crashed' = S.crashed

\* ------------------------------------------------------------- helpers
Remove(f, k) == [x \in (DOMAIN f) \ {k} |-> f[x]]
Put(f, k, v) == [x \in (DOMAIN f) \cup {k} |-> IF x = k THEN v ELSE f[x]]

\* [room.owner, ...room.clients]
Everyone(room) == <<room.owner>> \o room.clients

\* safeSend(ws, obj): sends only on an OPEN socket
safeSend(S, ws, action, body) ==
  IF S.conns[ws].open
  THEN [S EXCEPT !.out = Append(@, [to |-> ws, action |-> action, body |-> body])]
  ELSE S

\* broadcast(clients, obj)
RECURSIVE broadcast(_, _, _, _)
broadcast(S, clients, action, body) ==
  IF clients = <<>> THEN S
  ELSE broadcast(safeSend(S, Head(clients).ws, action, body), Tail(clients), action, body)

\* clearInterval(handle)
clearInterval(S, id) ==
  [S EXCEPT !.intervals = {i \in @ : i.id # id}, !.cleared = @ \cup {id}]

\* clearTimer with the clearInterval call forgotten: the handle is only dropped
clearTimerForgetsInterval(S, roomCode) ==
  [S EXCEPT !.rooms[roomCode].timer = NoTimer]

\* if (room.timer && room.timer.interval) { clearInterval(...); room.timer = null; }
clearTimer(S, roomCode) ==
  IF S.rooms[roomCode].timer # NoTimer
  THEN [clearInterval(S, S.rooms[roomCode].timer.interval)
          EXCEPT !.rooms[roomCode].timer = NoTimer]
  ELSE S

\* deleteRoom with "delete rooms[roomCode]" forgotten
deleteRoomKeepsEntry(S, roomCode) ==
  IF roomCode \notin DOMAIN S.rooms THEN S ELSE clearTimer(S, roomCode)

\* function deleteRoom(roomCode)
deleteRoom(S, roomCode) ==
  IF roomCode \notin DOMAIN S.rooms THEN S
  ELSE [clearTimer(S, roomCode) EXCEPT !.rooms = Remove(@, roomCode)]

\* leaveRoom, owner branch: clients.forEach(roomClosed; client.ws.room = null)
RECURSIVE closeClients(_, _)
closeClients(S, clients) ==
  IF clients = <<>> THEN S
  ELSE LET c == Head(clients)
           S1 == safeSend(S, c.ws, "roomClosed", "Owner left, room closed")
       IN closeClients([S1 EXCEPT !.conns[c.ws].room = Null], Tail(clients))

\* function leaveRoom(ws)
leaveRoom(S, ws) ==
  LET roomCode == S.conns[ws].room IN
  IF roomCode = Null THEN S
  ELSE IF roomCode \notin DOMAIN S.rooms
  THEN [S EXCEPT !.conns[ws].room = Null]
  ELSE LET room == S.rooms[roomCode] IN
       IF room.owner.ws = ws
       THEN LET S1 == closeClients(S, room.clients)
                S2 == [clearTimer(S1, roomCode) EXCEPT !.rooms = Remove(@, roomCode)]
            IN [S2 EXCEPT !.conns[ws].room = Null, !.conns[ws].userEmail = Null]
       ELSE [S EXCEPT !.rooms[roomCode].clients = SelectSeq(@, LAMBDA c : c.ws # ws),
                      !.conns[ws].room = Null,
                      !.conns[ws].userEmail = Null]

\* ------------------------------------------------------------ handlers
\* action === "create"
handleCreate(S, ws, userEmail, roomCode) ==
  LET S1 == leaveRoom(S, ws) IN
  IF userEmail = Null
  THEN safeSend(S1, ws, "error", "userEmail required to create room")
  ELSE LET room == [owner |-> [ws |-> ws, email |-> userEmail],
                    clients |-> <<>>,
                    state |-> "waiting",
                    timer |-> NoTimer,
                    finished |-> [e \in {} |-> 0]]
           S2 == [S1 EXCEPT !.conns[ws].userEmail = userEmail,
                            !.conns[ws].room = roomCode,
                            !.rooms = Put(@, roomCode, room)]
       IN safeSend(S2, ws, "created", [roomCode |-> roomCode])

\* room.clients.find(c => c.email === userEmail) / findIndex: first match, 0 if none
RECURSIVE IndexOfFrom(_, _, _)
IndexOfFrom(clients, userEmail, i) ==
  IF i > Len(clients) THEN 0
  ELSE IF clients[i].email = userEmail THEN i
  ELSE IndexOfFrom(clients, userEmail, i + 1)

IndexOf(clients, userEmail) == IndexOfFrom(clients, userEmail, 1)

\* bindClient without the lookup of an existing entry: it always pushes
bindClientAlwaysPushes(clients, ws, userEmail) ==
  Append(clients, [ws |-> ws, email |-> userEmail])

\* existing ? existing.ws = ws : room.clients.push({ ws, email: userEmail })
bindClient(clients, ws, userEmail) ==
  LET idx == IndexOf(clients, userEmail) IN
  IF idx > 0 THEN [clients EXCEPT ![idx].ws = ws]
  ELSE Append(clients, [ws |-> ws, email |-> userEmail])

\* allClients.forEach(client => { if (client.ws !== ws) safeSend(userJoined) })
RECURSIVE notifyJoined(_, _, _, _)
notifyJoined(S, clients, ws, userEmail) ==
  IF clients = <<>> THEN S
  ELSE notifyJoined(
         IF Head(clients).ws # ws
         THEN safeSend(S, Head(clients).ws, "userJoined", userEmail)
         ELSE S,
         Tail(clients), ws, userEmail)

\* action === "join"
handleJoin(S, ws, roomCode, userEmail) ==
  LET S1 == leaveRoom(S, ws) IN
  IF roomCode = Null \/ userEmail = Null
  THEN safeSend(S1, ws, "error", "roomCode and userEmail required to join")
  ELSE IF roomCode \notin DOMAIN S1.rooms
  THEN safeSend(S1, ws, "error", "Room does not exist")
  ELSE IF S1.rooms[roomCode].state = "started"
  THEN safeSend(S1, ws, "error", "Session already started, cannot join")
  ELSE LET S2 == [S1 EXCEPT !.conns[ws].userEmail = userEmail,
                            !.conns[ws].room = roomCode,
                            !.rooms[roomCode].clients = bindClient(@, ws, userEmail)]
           S3 == safeSend(S2, ws, "joined", [roomCode |-> roomCode])
       IN notifyJoined(S3, Everyone(S3.rooms[roomCode]), ws, userEmail)

\* (typeof timerSeconds === "number") ? Math.max(1, Math.floor(timerSeconds)) : 60
DefaultDuration == 60

\* Duration without Math.max(1, ...): the floor alone
DurationUnclamped(timerSeconds) ==
  IF timerSeconds.typeof = "number" THEN timerSeconds.halves \div 2 ELSE DefaultDuration

Duration(timerSeconds) ==
  IF timerSeconds.typeof = "number"
  THEN (IF timerSeconds.halves \div 2 >= 1 THEN timerSeconds.halves \div 2 ELSE 1)
  ELSE DefaultDuration

\* allClients.forEach(client => safeSend(client.ws, { owner: ..., sessionStarted }))
RECURSIVE notifyStarted(_, _, _, _)
notifyStarted(S, clients, ownerEmail, duration) ==
  IF clients = <<>> THEN S
  ELSE notifyStarted(
         safeSend(S, Head(clients).ws, "sessionStarted",
                  [owner |-> Head(clients).email = ownerEmail, timeRemaining |-> duration]),
         Tail(clients), ownerEmail, duration)

\* setInterval returns a handle distinct from every handle still scheduled or
\* still held by a room; the least such number stands for it.
UsedIds(S) ==
  {i.id : i \in S.intervals}
    \cup {S.rooms[c].timer.interval : c \in {d \in DOMAIN S.rooms : S.rooms[d].timer # NoTimer}}

NewId(S) == CHOOSE n \in 1..(Cardinality(UsedIds(S)) + 1) :
              /\ n \notin UsedIds(S)
              /\ \A m \in 1..(n - 1) : m \in UsedIds(S)

\* if (room.timer?.interval) clearInterval(room.timer.interval);
clearRunning(S, roomCode) ==
  IF S.rooms[roomCode].timer # NoTimer
  THEN clearInterval(S, S.rooms[roomCode].timer.interval)
  ELSE S

\* startTimer without the clearInterval of the running timer
startTimerKeepsRunning(S, roomCode, duration) ==
  LET id == NewId(S)
  IN [S EXCEPT !.rooms[roomCode].timer = [timeRemaining |-> duration, interval |-> id],
               !.intervals = @ \cup {[id |-> id, roomCode |-> roomCode]}]

\* room.timer = { timeRemaining: duration, interval: setInterval(..., 1000) }
startTimer(S, roomCode, duration) ==
  LET S1 == clearRunning(S, roomCode)
      S2 == [S1 EXCEPT !.rooms[roomCode].timer = NoTimer]
      id == NewId(S2)
  IN [S1 EXCEPT !.rooms[roomCode].timer = [timeRemaining |-> duration, interval |-> id],
                !.intervals = @ \cup {[id |-> id, roomCode |-> roomCode]}]

\* action === "startSession"
handleStartSession(S, ws, roomCode, timerSeconds) ==
  IF roomCode \notin DOMAIN S.rooms
  THEN safeSend(S, ws, "error", "Room does not exist")
  ELSE IF S.rooms[roomCode].owner.ws # ws
  THEN safeSend(S, ws, "error", "Only the owner can start the session")
  ELSE LET duration == Duration(timerSeconds)
           S1 == [S EXCEPT !.rooms[roomCode].state = "started"]
           room == S1.rooms[roomCode]
           S2 == notifyStarted(S1, Everyone(room), room.owner.email, duration)
       IN startTimer(S2, roomCode, duration)

\* expire with "r.timer = null" forgotten
expireKeepsTimer(S, roomCode, everyone) ==
  LET S1 == clearInterval(S, S.rooms[roomCode].timer.interval)
      S2 == [S1 EXCEPT !.rooms[roomCode].state = "ended"]
  IN broadcast(S2, everyone, "sessionEnded", "Time is up!")

\* if (r.timer.timeRemaining <= 0) { clearInterval; r.timer = null; r.state = "ended"; ... }
expire(S, roomCode, everyone) ==
  LET S1 == clearInterval(S, S.rooms[roomCode].timer.interval)
      S2 == [S1 EXCEPT !.rooms[roomCode].timer = NoTimer,
                       !.rooms[roomCode].state = "ended"]
  IN broadcast(S2, everyone, "sessionEnded", "Time is up!")

\* the callback with "r.timer.timeRemaining--" forgotten
onTickNoDecrement(S, roomCode) ==
  IF roomCode \notin DOMAIN S.rooms THEN S
  ELSE IF S.rooms[roomCode].timer = NoTimer
  THEN Crash(S)
  ELSE LET r == S.rooms[roomCode]
           everyone == Everyone(r)
           S2 == broadcast(S, everyone, "timerTick",
                           [timeRemaining |-> r.timer.timeRemaining])
       IN IF r.timer.timeRemaining <= 0 THEN expire(S2, roomCode, everyone) ELSE S2

\* the setInterval callback, closed over roomCode
onTick(S, roomCode) ==
  IF roomCode \notin DOMAIN S.rooms THEN S
  ELSE IF S.rooms[roomCode].timer = NoTimer
  THEN Crash(S)  \* r.timer.timeRemaining on null throws
  ELSE LET S1 == [S EXCEPT !.rooms[roomCode].timer.timeRemaining = @ - 1]
           r == S1.rooms[roomCode]
           everyone == Everyone(r)
           S2 == broadcast(S1, everyone, "timerTick",
                           [timeRemaining |-> r.timer.timeRemaining])
       IN IF r.timer.timeRemaining <= 0 THEN expire(S2, roomCode, everyone) ELSE S2

\* timeRemaining: room.timer?.timeRemaining || null
RemainingOrNull(room) ==
  IF room.timer # NoTimer /\ room.timer.timeRemaining # 0
  THEN [null |-> FALSE, value |-> room.timer.timeRemaining]
  ELSE [null |-> TRUE, value |-> 0]

reconnected(S, ws, roomCode, role) ==
  safeSend(S, ws, "reconnected",
           [role |-> role, state |-> S.rooms[roomCode].state,
            timeRemaining |-> RemainingOrNull(S.rooms[roomCode])])

\* action === "reconnect"
handleReconnect(S, ws, roomCode, userEmail) ==
  IF roomCode = Null \/ userEmail = Null
  THEN safeSend(S, ws, "error", "roomCode and userEmail required to reconnect")
  ELSE IF roomCode \notin DOMAIN S.rooms
  THEN safeSend(S, ws, "error", "Room does not exist")
  ELSE IF S.rooms[roomCode].state = "ended"
  THEN safeSend(S, ws, "error", "Room already ended")
  ELSE LET S1 == [S EXCEPT !.conns[ws].userEmail = userEmail,
                           !.conns[ws].room = roomCode]
       IN IF S1.rooms[roomCode].owner.email = userEmail
          THEN reconnected([S1 EXCEPT !.rooms[roomCode].owner.ws = ws],
                           ws, roomCode, "owner")
          ELSE reconnected([S1 EXCEPT !.rooms[roomCode].clients = bindClient(@, ws, userEmail)],
                           ws, roomCode, "client")

\* everyone.forEach(client => safeSend(client.ws, { roomDeleted, owner: ... }))
RECURSIVE notifyDeleted(_, _, _, _)
notifyDeleted(S, clients, roomCode, ownerWs) ==
  IF clients = <<>> THEN S
  ELSE notifyDeleted(
         safeSend(S, Head(clients).ws, "roomDeleted",
                  [roomCode |-> roomCode, owner |-> Head(clients).ws = ownerWs]),
         Tail(clients), roomCode, ownerWs)

\* action === "deleteRoom"
handleDeleteRoom(S, ws, roomCode) ==
  IF roomCode = Null
  THEN safeSend(S, ws, "error", "roomCode required to delete room")
  ELSE IF roomCode \notin DOMAIN S.rooms
  THEN safeSend(S, ws, "error", "Room does not exist")
  ELSE IF S.rooms[roomCode].owner.ws # ws
  THEN safeSend(S, ws, "error", "Only the owner can delete the room")
  ELSE LET room == S.rooms[roomCode]
       IN deleteRoom(notifyDeleted(S, Everyone(room), roomCode, room.owner.ws), roomCode)

\* action === "leaveRoom"
handleLeaveRoom(S, ws) ==
  LET roomCode == S.conns[ws].room IN
  IF roomCode = Null
  THEN safeSend(S, ws, "error", "You are not in a room")
  ELSE IF roomCode \notin DOMAIN S.rooms
  THEN safeSend([S EXCEPT !.conns[ws].room = Null], ws, "error", "Room no longer exists")
  ELSE IF S.rooms[roomCode].owner.ws = ws
  THEN safeSend(S, ws, "error", "Owner cannot leave. Use deleteRoom instead.")
  ELSE LET S1 == [S EXCEPT !.rooms[roomCode].clients = SelectSeq(@, LAMBDA c : c.ws # ws)]
           room == S1.rooms[roomCode]
           S2 == broadcast(S1, Everyone(room), "userLeft", room.clients)
           S3 == safeSend(S2, ws, "leftRoom", [roomCode |-> roomCode])
       IN [S3 EXCEPT !.conns[ws].room = Null, !.conns[ws].userEmail = Null]

\* let timeRemaining = room?.timer?.timeRemaining; if (!timeRemaining) timeRemaining = 0;
RemainingOrZero(room) == IF room.timer # NoTimer THEN room.timer.timeRemaining ELSE 0

\* recordScore that keeps a score already stored (first write wins)
recordScoreFirstWins(finished, userEmail, score) ==
  IF userEmail \in DOMAIN finished THEN finished ELSE Put(finished, userEmail, score)

\* room.finished[userEmail] = score
recordScore(finished, userEmail, score) == Put(finished, userEmail, score)

\* action === "finishQuiz"
handleFinishQuiz(S, ws, roomCode, userEmail, score) ==
  IF roomCode = Null \/ userEmail = Null \/ score.typeof # "number"
  THEN safeSend(S, ws, "error", "roomCode, userEmail, and numeric score required")
  ELSE IF roomCode \notin DOMAIN S.rooms
  THEN safeSend(S, ws, "error", "Room does not exist")
  ELSE LET S1 == [S EXCEPT !.rooms[roomCode].finished = recordScore(@, userEmail, score.value)]
           room == S1.rooms[roomCode]
       IN safeSend(S1, room.owner.ws, "userFinished",
                   [userEmail |-> userEmail, score |-> score.value,
                    timeRemaining |-> RemainingOrZero(room)])

\* action === "message"
handleMessage(S, ws) ==
  IF S.conns[ws].room = Null \/ S.conns[ws].room \notin DOMAIN S.rooms
  THEN safeSend(S, ws, "error", "You are not in a room")
  ELSE broadcast(S, Everyone(S.rooms[S.conns[ws].room]), "message", "body")

\* any other action string
handleUnknown(S, ws) == safeSend(S, ws, "error", "Unknown action")

\* The payloads that are not an {action, body} object: text JSON.parse rejects,
\* the JSON literal null, and any other JSON value (a number, a string, true,
\* an array).
Payloads == {"invalid", "null", "scalar"}

\* JSON.parse throws on invalid text and the catch returns; const { action,
\* body } = null throws outside any try; any other value destructures to an
\* undefined action, which falls through to the unknown-action reply
handleMalformed(S, ws, payload) ==
  IF payload = "invalid" THEN S
  ELSE IF payload = "null" THEN Crash(S)
  ELSE handleUnknown(S, ws)

\* ------------------------------------------------------------- actions
\* wss.on("connection"): a new socket; a closed socket that no room refers to
\* any more stands for it.
Referenced(w) ==
  \E c \in DOMAIN rooms : \E i \in 1..Len(Everyone(rooms[c])) : Everyone(rooms[c])[i].ws = w

Connect(w) ==
  /\ ~crashed
  /\ ~conns[w].open
  /\ ~Referenced(w)
  /\ Apply([Cur EXCEPT !.conns[w] = NewConn])

\* ws.on("close") / ws.on("error")
Close(w) ==
  /\ ~crashed
  /\ conns[w].open
  /\ Apply(leaveRoom([Cur EXCEPT !.conns[w].open = FALSE], w))

\* do { roomCode = random 4 digits } while (rooms[roomCode]): roomCode is a
\* code the generator returns when the loop ends
Create(w, userEmail, roomCode) ==
  /\ ~crashed
  /\ conns[w].open
  /\ userEmail # Null => roomCode \notin DOMAIN leaveRoom(Cur, w).rooms
  /\ Apply(handleCreate(Cur, w, userEmail, roomCode))


Join(w, roomCode, userEmail) ==
  /\ ~crashed
  /\ conns[w].open
  /\ Apply(handleJoin(Cur, w, roomCode, userEmail))

StartSession(w, roomCode, timerSeconds) ==
  /\ ~crashed
  /\ conns[w].open
  /\ Apply(handleStartSession(Cur, w, roomCode, timerSeconds))

Tick(i) ==
  /\ ~crashed
  /\ i \in intervals
  /\ Apply(onTick(Cur, i.roomCode))

Reconnect(w, roomCode, userEmail) ==
  /\ ~crashed
  /\ conns[w].open
  /\ Apply(handleReconnect(Cur, w, roomCode, userEmail))

DeleteRoom(w, roomCode) ==
  /\ ~crashed
  /\ conns[w].open
  /\ Apply(handleDeleteRoom(Cur, w, roomCode))

LeaveRoom(w) ==
  /\ ~crashed
  /\ conns[w].open
  /\ Apply(handleLeaveRoom(Cur, w))

FinishQuiz(w, roomCode, userEmail, score) ==
  /\ ~crashed
  /\ conns[w].open
  /\ Apply(handleFinishQuiz(Cur, w, roomCode, userEmail, score))

Message(w) ==
  /\ ~crashed
  /\ conns[w].open
  /\ Apply(handleMessage(Cur, w))

Unknown(w) ==
  /\ ~crashed
  /\ conns[w].open
  /\ Apply(handleUnknown(Cur, w))

Malformed(w, payload) ==
  /\ ~crashed
  /\ conns[w].open
  /\ Apply(handleMalformed(Cur, w, payload))

Init ==
  /\ rooms = NoRooms
  /\ conns = NoConns
  /\ intervals = {}
  /\ crashed = FALSE

\* ---------------------------------------------------------------- claims
\* A request is processed only on an open socket of a live process.
Accepts(w) == ~crashed /\ conns[w].open

\* The event sent exactly one notification: an error, to w.
ErrorTo(S, w) == Len(S.out) = 1 /\ S.out[1].to = w /\ S.out[1].action = "error"

\* How many times the event sent `action` to w.
Count(S, w, action) ==
  Cardinality({i \in 1..Len(S.out) : S.out[i].to = w /\ S.out[i].action = action})

Rank(state) == CASE state = "waiting" -> 0 [] state = "started" -> 1 [] state = "ended" -> 2

Rosters(rs) == [c \in DOMAIN rs |-> [owner |-> rs[c].owner, clients |-> rs[c].clients]]

\* This step is a create that registers a new room under code c.
CreatedHere(c) ==
  /\ c \in DOMAIN rooms'
  /\ rooms'[c].state = "waiting"
  /\ \E w \in Conns, e \in Emails : Create(w, e, c)

\* P holds of the result of every event that can happen in this state, other
\* than a connection opening and a create.
EveryOtherEvent(P(_)) ==
  /\ \A w \in Conns : Accepts(w) =>
       /\ P(leaveRoom([Cur EXCEPT !.conns[w].open = FALSE], w))
       /\ \A c \in Codes \cup {Null}, e \in Emails \cup {Null} :
            /\ P(handleJoin(Cur, w, c, e))
            /\ P(handleReconnect(Cur, w, c, e))
            /\ \A s \in ScoreInputs : P(handleFinishQuiz(Cur, w, c, e, s))
       /\ \A c \in Codes \cup {Null} :
            /\ P(handleDeleteRoom(Cur, w, c))
            /\ \A t \in TimerInputs : P(handleStartSession(Cur, w, c, t))
       /\ P(handleLeaveRoom(Cur, w))
       /\ P(handleMessage(Cur, w))
       /\ P(handleUnknown(Cur, w))
       /\ \A p \in Payloads : P(handleMalformed(Cur, w, p))
  /\ \A i \in intervals : ~crashed => P(onTick(Cur, i.roomCode))

\* The sockets on a room's roster.
Members(room) == {Everyone(room)[i].ws : i \in 1..Len(Everyone(room))}

\* C1: a live room's state only moves waiting -> started -> ended: no event
\* takes an ended room to another state or a started room back to waiting.
C1_StateNeverRegresses ==
  [][\A c \in (DOMAIN rooms) \cap (DOMAIN rooms') :
       ~CreatedHere(c) => Rank(rooms'[c].state) >= Rank(rooms[c].state)]_vars

\* C2: a join of a started room replies with one error to the sender and
\* leaves the roster of every live room as it was.
C2_JoinStartedRejected ==
  \A w \in Conns, c \in DOMAIN rooms, e \in Emails \cup {Null} :
    (Accepts(w) /\ rooms[c].state = "started") =>
      LET S == handleJoin(Cur, w, c, e)
      IN ErrorTo(S, w) /\ Rosters(S.rooms) = Rosters(rooms)

\* C3: between events, a live room has a timer iff its state is started.
C3_TimerIffStarted ==
  \A c \in DOMAIN rooms : (rooms[c].timer # NoTimer) <=> (rooms[c].state = "started")

\* C3 witness: a started room with its timer beside a room whose timer ran out.
C3_Witness ==
  /\ \E c \in DOMAIN rooms : rooms[c].state = "started" /\ rooms[c].timer # NoTimer
  /\ \E c \in DOMAIN rooms : rooms[c].state = "ended" /\ rooms[c].timer = NoTimer

\* C4: no live room has an owner connection that is already closed (the room
\* of a closing owner connection is removed with it).
C4_OwnerConnectionOpen ==
  \A c \in DOMAIN rooms : conns[rooms[c].owner.ws].open

\* C5: a request answered with an error sends nothing else, to nobody else, and
\* leaves every room and timer as it was.
FailsCleanly(S, w) ==
  (\E i \in 1..Len(S.out) : S.out[i].action = "error") =>
    ErrorTo(S, w) /\ S.rooms = rooms /\ S.intervals = intervals

C5_ErrorChangesNothing ==
  \A w \in Conns : Accepts(w) =>
    /\ \A e \in Emails \cup {Null}, c \in Codes : FailsCleanly(handleCreate(Cur, w, e, c), w)
    /\ \A c \in Codes \cup {Null}, e \in Emails \cup {Null} :
         /\ FailsCleanly(handleJoin(Cur, w, c, e), w)
         /\ FailsCleanly(handleReconnect(Cur, w, c, e), w)
         /\ \A s \in ScoreInputs : FailsCleanly(handleFinishQuiz(Cur, w, c, e, s), w)
    /\ \A c \in Codes \cup {Null} :
         /\ FailsCleanly(handleDeleteRoom(Cur, w, c), w)
         /\ \A t \in TimerInputs : FailsCleanly(handleStartSession(Cur, w, c, t), w)
    /\ FailsCleanly(handleLeaveRoom(Cur, w), w)
    /\ FailsCleanly(handleMessage(Cur, w), w)
    /\ FailsCleanly(handleUnknown(Cur, w), w)

\* C6: the tick that takes a room's timer to 0 ends the room, removes its timer
\* and sends sessionEnded exactly once to each open connection on its roster.
C6_SessionEndedOnce ==
  \A i \in intervals :
    LET c == i.roomCode IN
    (~crashed /\ c \in DOMAIN rooms /\ rooms[c].timer # NoTimer
       /\ rooms[c].timer.timeRemaining = 1) =>
      LET S == onTick(Cur, c) IN
      /\ c \in DOMAIN S.rooms
      /\ S.rooms[c].state = "ended"
      /\ S.rooms[c].timer = NoTimer
      /\ \A w \in Members(rooms[c]) : conns[w].open => Count(S, w, "sessionEnded") = 1

\* C7: a room's removal cancels its timer in the same event, so that no
\* interval of a removed room is left to send timerTick or sessionEnded, also
\* when the code is used again: every scheduled interval is the timer of the
\* live room of its code, and deleteRoom or the owner's disconnect leaves no
\* interval scheduled for the removed code.
IsTimerOf(rs, i) ==
  /\ i.roomCode \in DOMAIN rs
  /\ rs[i.roomCode].timer # NoTimer
  /\ rs[i.roomCode].timer.interval = i.id

NoneScheduledFor(S, c) == \A i \in S.intervals : i.roomCode # c

C7_NoTickAfterDelete ==
  /\ \A i \in intervals : IsTimerOf(rooms, i)
  /\ \A w \in Conns, c \in DOMAIN rooms : (Accepts(w) /\ rooms[c].owner.ws = w) =>
       /\ NoneScheduledFor(handleDeleteRoom(Cur, w, c), c)
       /\ conns[w].room = c =>
            NoneScheduledFor(leaveRoom([Cur EXCEPT !.conns[w].open = FALSE], w), c)

\* C7 witness: the owner deletes a room whose timer is running while the other
\* room's timer runs too, and only the deleted room's interval is cancelled.
C7_Witness ==
  \E w \in Conns, c \in DOMAIN rooms, d \in DOMAIN rooms :
    /\ Accepts(w) /\ rooms[c].owner.ws = w /\ c # d
    /\ rooms[c].timer # NoTimer /\ rooms[d].timer # NoTimer
    /\ LET S == handleDeleteRoom(Cur, w, c)
       IN /\ c \notin DOMAIN S.rooms
          /\ S.cleared = {rooms[c].timer.interval}
          /\ S.intervals = {[id |-> rooms[d].timer.interval, roomCode |-> d]}

\* C8: reconnect to a live room that has not ended replies with role owner and
\* rebinds the owner's socket for the owner's email, replies with role client
\* and rebinds the entry of a member's email in place, and replies with role
\* client and appends one entry for an unknown email; reconnect to an absent
\* or ended room replies with an error and changes no room.
Reconnected(S, w, role) ==
  /\ Len(S.out) = 1
  /\ S.out[1].to = w
  /\ S.out[1].action = "reconnected"
  /\ S.out[1].body.role = role

Refused(S, w, text) == ErrorTo(S, w) /\ S.out[1].body = text

C9_OwnerLeaveRefused ==
  \A w \in Conns :
    (Accepts(w) /\ conns[w].room \in DOMAIN rooms /\ rooms[conns[w].room].owner.ws = w) =>
      LET S == handleLeaveRoom(Cur, w)
      IN ErrorTo(S, w) /\ S.rooms = rooms /\ S.conns = conns /\ S.intervals = intervals

C9_DeleteRemoves ==
  \A w \in Conns, c \in DOMAIN rooms : (Accepts(w) /\ rooms[c].owner.ws = w) =>
    c \notin DOMAIN handleDeleteRoom(Cur, w, c).rooms

C9_AbsentLookups ==
  \A w \in Conns, c \in Codes \ DOMAIN rooms, e \in Emails : Accepts(w) =>
    /\ LET S == handleJoin(Cur, w, c, e)
       IN /\ S.out # <<>>
          /\ S.out[Len(S.out)] = [to |-> w, action |-> "error", body |-> "Room does not exist"]
          /\ c \notin DOMAIN S.rooms
    /\ LET S == handleReconnect(Cur, w, c, e)
       IN Refused(S, w, "Room does not exist") /\ S.rooms = rooms
    /\ \A t \in TimerInputs :
         LET S == handleStartSession(Cur, w, c, t)
         IN Refused(S, w, "Room does not exist") /\ S.rooms = rooms
    /\ \A n \in 0..MaxScore :
         LET S == handleFinishQuiz(Cur, w, c, e, Score(n))
         IN Refused(S, w, "Room does not exist") /\ S.rooms = rooms

C9_OwnerLeaveAndDelete ==
  /\ C9_OwnerLeaveRefused
  /\ C9_DeleteRemoves
  /\ C9_AbsentLookups
  /\ EveryOtherEvent(LAMBDA S : DOMAIN S.rooms \subseteq DOMAIN rooms)

\* C9 witness: the owner connection of a room with a member, tagged with that
\* room, is refused leaveRoom and then deletes the room.
C9_Witness ==
  \E w \in Conns : LET c == conns[w].room IN
    /\ Accepts(w) /\ c \in DOMAIN rooms /\ rooms[c].owner.ws = w
    /\ rooms[c].clients # <<>>
    /\ Refused(handleLeaveRoom(Cur, w), w, "Owner cannot leave. Use deleteRoom instead.")
    /\ DOMAIN handleDeleteRoom(Cur, w, c).rooms = (DOMAIN rooms) \ {c}

\* C10: a successful finishQuiz stores its score under its identity, over any
\* score stored before and beside the scores of the other identities, and
\* sends userFinished to the owner's socket and to nobody else; a finishQuiz
\* that fails stores nothing.
C10_LastWriteWins ==
  \A w \in Conns, c \in Codes \cup {Null}, e \in Emails \cup {Null}, s \in ScoreInputs :
    Accepts(w) =>
      LET S == handleFinishQuiz(Cur, w, c, e, s) IN
      IF c \in DOMAIN rooms /\ e # Null /\ s.typeof = "number"
      THEN LET before == rooms[c].finished
               after == S.rooms[c].finished
               ownerWs == rooms[c].owner.ws
           IN /\ DOMAIN after = (DOMAIN before) \cup {e}
              /\ after[e] = s.value
              /\ \A x \in (DOMAIN before) \ {e} : after[x] = before[x]
              /\ \A d \in (DOMAIN rooms) \ {c} : S.rooms[d] = rooms[d]
              /\ Len(S.out) = (IF conns[ownerWs].open THEN 1 ELSE 0)
              /\ \A i \in 1..Len(S.out) :
                   /\ S.out[i].to = ownerWs
                   /\ S.out[i].action = "userFinished"
                   /\ S.out[i].body.userEmail = e
                   /\ S.out[i].body.score = s.value
      ELSE ErrorTo(S, w) /\ S.rooms = rooms

\* C10 witness: a member that is not the owner overwrites a stored score with
\* a different one.
C10_Witness ==
  \E w \in Conns, c \in DOMAIN rooms, e \in Emails, n \in 0..MaxScore :
    /\ Accepts(w) /\ rooms[c].owner.ws # w
    /\ e \in DOMAIN rooms[c].finished /\ rooms[c].finished[e] # n
    /\ handleFinishQuiz(Cur, w, c, e, Score(n)).rooms[c].finished[e] = n
    /\ conns[rooms[c].owner.ws].open

Started(c) == c \in DOMAIN rooms /\ rooms[c].state = "started"

\* The started room has ended, or was removed (its code is free, or names a
\* room created since, which is waiting).
EndedOrRemoved(c) == c \notin DOMAIN rooms \/ rooms[c].state \in {"ended", "waiting"}

TickCountsDown ==
  \A i \in intervals :
    LET c == i.roomCode IN
    (~crashed /\ c \in DOMAIN rooms /\ rooms[c].timer # NoTimer) =>
      LET S == onTick(Cur, c)
          k == rooms[c].timer.timeRemaining
      IN /\ c \in DOMAIN S.rooms
         /\ k >= 1
         /\ IF k > 1
            THEN /\ S.rooms[c].state = rooms[c].state
                 /\ S.rooms[c].timer = [rooms[c].timer EXCEPT !.timeRemaining = k - 1]
                 /\ \A w \in Conns : Count(S, w, "sessionEnded") = 0
            ELSE /\ S.rooms[c].state = "ended"
                 /\ S.rooms[c].timer = NoTimer
                 /\ \A w \in Members(rooms[c]) :
                      conns[w].open => Count(S, w, "sessionEnded") >= 1

KeepsTimers(S) ==
  \A c \in (DOMAIN rooms) \cap (DOMAIN S.rooms) :
    S.rooms[c].timer = rooms[c].timer /\ S.rooms[c].state = rooms[c].state

OnlyTicksAndStartsMoveTimers ==
  \A w \in Conns : Accepts(w) =>
    /\ KeepsTimers(leaveRoom([Cur EXCEPT !.conns[w].open = FALSE], w))
    /\ \A c \in Codes \cup {Null}, e \in Emails \cup {Null} :
         /\ KeepsTimers(handleJoin(Cur, w, c, e))
         /\ KeepsTimers(handleReconnect(Cur, w, c, e))
         /\ \A s \in ScoreInputs : KeepsTimers(handleFinishQuiz(Cur, w, c, e, s))
    /\ \A c \in Codes \cup {Null} : KeepsTimers(handleDeleteRoom(Cur, w, c))
    /\ KeepsTimers(handleLeaveRoom(Cur, w))
    /\ KeepsTimers(handleMessage(Cur, w))
    /\ KeepsTimers(handleUnknown(Cur, w))
    /\ \A p \in Payloads : KeepsTimers(handleMalformed(Cur, w, p))

\* This step is a startSession the server accepts for the live room c (it
\* leaves the room with a timer and comes from the room's owner connection).
Restarted(c) ==
  /\ c \in DOMAIN rooms
  /\ c \in DOMAIN rooms'
  /\ rooms'[c].timer # NoTimer
  /\ \E t \in TimerInputs : StartSession(rooms[c].owner.ws, c, t)

C13_MalformedDropped ==
  \A w \in Conns, p \in Payloads :
    Accepts(w) =>
      LET S == handleMalformed(Cur, w, p)
      IN /\ S.out = <<>>
         /\ ~S.crashed
         /\ S.rooms = rooms
         /\ S.conns = conns
         /\ S.intervals = intervals

\* C14: every connection is on the roster of at most one live room, and in at
\* most one entry (owner or member) of that roster.
Entries(w) ==
  UNION {{<<c, i>> : i \in {j \in 1..Len(Everyone(rooms[c])) : Everyone(rooms[c])[j].ws = w}} :
           c \in DOMAIN rooms}

C14_OneRoomPerConnection == \A w \in Conns : Cardinality(Entries(w)) <= 1

\* C15: in every live room no two member entries have the same email and no
\* member entry has the owner's email, and the owner's email of a room never
\* changes.
MemberEmailsDistinct ==
  \A c \in DOMAIN rooms : \A i, j \in 1..Len(rooms[c].clients) :
    rooms[c].clients[i].email = rooms[c].clients[j].email => i = j

NoMemberWithOwnerEmail ==
  \A c \in DOMAIN rooms : \A i \in 1..Len(rooms[c].clients) :
    rooms[c].clients[i].email # rooms[c].owner.email

OwnerEmailKept ==
  \A c \in (DOMAIN rooms) \cap (DOMAIN rooms') :
    ~CreatedHere(c) => rooms'[c].owner.email = rooms[c].owner.email

C15_EmailIdentifiesOne ==
  /\ [](MemberEmailsDistinct /\ NoMemberWithOwnerEmail)
  /\ [][OwnerEmailKept]_vars

\* C16: whenever a create registers a room under code c, no open connection
\* other than the creator has its room tag equal to c.
C16_NoCodeReuseWhileTagged ==
  \A w \in Conns, e \in Emails, c \in Codes :
    LET S1 == leaveRoom(Cur, w) IN
    (Accepts(w) /\ c \notin DOMAIN S1.rooms) =>
      LET S == handleCreate(Cur, w, e, c)
      IN \A v \in Conns \ {w} : ~(S.conns[v].open /\ S.conns[v].room = c)

\* C17: a room whose state is waiting has no recorded score.
C17_NoScoreWhileWaiting ==
  \A c \in DOMAIN rooms : rooms[c].state = "waiting" => DOMAIN rooms[c].finished = {}

\* C18: at most one scheduled interval delivers ticks for a room code, in
\* every reachable state: after startSession on a room already started, after
\* expiry, deleteRoom, the owner's disconnect and a create that reuses the code.
ScheduledFor(is, c) == {i \in is : i.roomCode = c}

C18_OneTimerPerRoom ==
  /\ \A c \in Codes : Cardinality(ScheduledFor(intervals, c)) <= 1
  /\ \A w \in Conns, c \in DOMAIN rooms, t \in TimerInputs :
       (Accepts(w) /\ rooms[c].owner.ws = w /\ rooms[c].timer # NoTimer) =>
         LET S == handleStartSession(Cur, w, c, t)
         IN /\ rooms[c].timer.interval \in S.cleared
            /\ ScheduledFor(S.intervals, c) =
                 {[id |-> S.rooms[c].timer.interval, roomCode |-> c]}

\* C18 witness: both rooms have a timer running and the owner of one starts
\* its session again: the running interval is cancelled and one is scheduled.
C18_Witness ==
  \E w \in Conns, c \in DOMAIN rooms, d \in DOMAIN rooms :
    /\ Accepts(w) /\ rooms[c].owner.ws = w /\ c # d
    /\ rooms[c].timer # NoTimer /\ rooms[d].timer # NoTimer
    /\ LET S == handleStartSession(Cur, w, c, Seconds(2))
       IN /\ S.cleared = {rooms[c].timer.interval}
          /\ Cardinality(S.intervals) = 2
          /\ Cardinality(ScheduledFor(S.intervals, c)) = 1

\* C19: a leaveRoom answered with leftRoom takes exactly one member entry, the
\* caller's, off the roster of the caller's room, sends userLeft with the new
\* membership to the owner and to every remaining member, and clears the
\* caller's room and identity tags; a leaveRoom that leaves the roster as it
\* was sends no userLeft.
C19_LeaveRemovesCaller ==
  \A w \in Conns : Accepts(w) =>
    LET S == handleLeaveRoom(Cur, w)
        c == conns[w].room
    IN /\ Count(S, w, "leftRoom") >= 1 =>
            /\ c \in DOMAIN rooms /\ c \in DOMAIN S.rooms
            /\ Len(S.rooms[c].clients) = Len(rooms[c].clients) - 1
            /\ S.rooms[c].clients = SelectSeq(rooms[c].clients, LAMBDA m : m.ws # w)
            /\ S.rooms[c].owner = rooms[c].owner
            /\ \A v \in Members(S.rooms[c]) : conns[v].open => Count(S, v, "userLeft") >= 1
            /\ \A i \in 1..Len(S.out) :
                 S.out[i].action = "userLeft" => S.out[i].body = S.rooms[c].clients
            /\ S.conns[w].room = Null /\ S.conns[w].userEmail = Null
       /\ Rosters(S.rooms) = Rosters(rooms) =>
            \A i \in 1..Len(S.out) : S.out[i].action # "userLeft"

\* C20: an open connection whose room tag names a live room is the owner
\* connection or a member connection of that room, so a message relay or a
\* leaveRoom is accepted only from a connection on the roster of its room.
TaggedOnRoster(w) ==
  conns[w].room \in DOMAIN rooms => w \in Members(rooms[conns[w].room])

C20_TagImpliesMember ==
  \A w \in Conns : Accepts(w) =>
    /\ TaggedOnRoster(w)
    /\ Count(handleMessage(Cur, w), w, "error") = 0 => w \in Members(rooms[conns[w].room])
    /\ Count(handleLeaveRoom(Cur, w), w, "leftRoom") >= 1 =>
         w \in Members(rooms[conns[w].room])

\* Every event the server can process, with requests drawn from the codes C,
\* identities E, durations T and scores Sc.
NextOver(C, E, T, Sc) ==
  \/ \E w \in Conns : Connect(w)
  \/ \E w \in Conns : Close(w)
  \/ \E w \in Conns, e \in E \cup {Null}, c \in C : Create(w, e, c)
  \/ \E w \in Conns, c \in C \cup {Null}, e \in E \cup {Null} : Join(w, c, e)
  \/ \E w \in Conns, c \in C \cup {Null}, t \in T : StartSession(w, c, t)
  \/ \E i \in intervals : Tick(i)
  \/ \E w \in Conns, c \in C \cup {Null}, e \in E \cup {Null} : Reconnect(w, c, e)
  \/ \E w \in Conns, c \in C \cup {Null} : DeleteRoom(w, c)
  \/ \E w \in Conns : LeaveRoom(w)
  \/ \E w \in Conns, c \in C \cup {Null}, e \in E \cup {Null}, s \in Sc :
       FinishQuiz(w, c, e, s)
  \/ \E w \in Conns : Message(w)
  \/ \E w \in Conns : Unknown(w)
  \/ \E w \in Conns, p \in Payloads : Malformed(w, p)

\* One room code, every identity, duration and score.
Next == NextOver(OneCode, Emails, TimerInputs, ScoreInputs)

Spec == Init /\ [][Next]_vars

\* Two room codes, one identity, one score.
NextRooms == NextOver(Codes, OneEmail, TimerInputs, {NoScore, Score(0)})

SpecRooms == Init /\ [][NextRooms]_vars

\* One room code, every identity and duration, one score.  The event loop runs
\* a due interval callback: ticks are weakly fair.
NextFair == NextOver(OneCode, Emails, TimerInputs, {NoScore, Score(0)})

FairSpec == Init /\ [][NextFair]_vars /\ WF_vars(\E i \in intervals : Tick(i))

\* One room code, one identity, every kind of duration.
NextDurations == NextOver(OneCode, OneEmail, DurationInputs, {NoScore, Score(0)})

SpecDurations == Init /\ [][NextDurations]_vars
====
